---- MODULE Spec2Model ----
(***************************************************************************)
(* Model of the hackathon-todo-app backend: the bearer-token verifier of   *)
(* app/auth/jwt.py and the five task routes of app/api/v1/tasks.py over    *)
(* the tasks table of app/models/task.py.                                  *)
(*                                                                         *)
(* A request is received (dependencies and body validation run), then its  *)
(* handler runs its SQL statements.  Handlers that SELECT and later COMMIT *)
(* are two steps, because requests run concurrently in the thread pool,    *)
(* each with its own session.                                              *)
(***************************************************************************)
EXTENDS Integers, Sequences, FiniteSets, TLC

\* ---------------------------------------------------------------- bounds
MaxReqs == 2        \* requests received in one behaviour
MaxInFlight == 2    \* requests whose handler is running at the same time
MaxTime == 2        \* last clock reading

\* ------------------------------------------------------- program constants
HTTP_200_OK == 200
HTTP_201_CREATED == 201
HTTP_401_UNAUTHORIZED == 401
HTTP_403_FORBIDDEN == 403
HTTP_404_NOT_FOUND == 404
TITLE_MAX_LENGTH == 500
DESCRIPTION_MAX_LENGTH == 5000

\* ------------------------------------------------------------ Python values
\* Optional[x]: None is <<>>, a value x is <<x>>.
None == <<>>
Some(x) == <<x>>
IsNone(o) == o = <<>>
Get(o) == o[1]

\* A JSON value of a token claim.  kind "none" is None (the claim is absent
\* or null: dict.get returns None for both), "str" carries its characters in
\* s, "int" carries its value in n.
ClaimNone == [kind |-> "none", s |-> <<>>, n |-> 0]
ClaimStr(chars) == [kind |-> "str", s |-> chars, n |-> 0]
ClaimInt(i) == [kind |-> "int", s |-> <<>>, n |-> i]

\* bool(v): None, "" and 0 are falsy.
Truthy(v) ==
  CASE v.kind = "none" -> FALSE
    [] v.kind = "str" -> Len(v.s) > 0
    [] v.kind = "int" -> v.n # 0

\* a or b
PyOr(a, b) == IF Truthy(a) THEN a ELSE b

Digits == <<"0", "1", "2", "3", "4", "5", "6", "7", "8", "9">>
IsDigit(c) == \E d \in 1..10 : Digits[d] = c
DigitVal(c) == (CHOOSE d \in 1..10 : Digits[d] = c) - 1

RECURSIVE DecimalValue(_)
DecimalValue(chars) ==
  IF chars = <<>> THEN 0
  ELSE 10 * DecimalValue(SubSeq(chars, 1, Len(chars) - 1)) + DigitVal(chars[Len(chars)])

\* int(v) succeeds (no ValueError/TypeError): an int, or a string of decimal
\* digits (the claim strings enumerated carry no sign, blank or underscore).
IntConvertible(v) ==
  \/ v.kind = "int"
  \/ v.kind = "str" /\ Len(v.s) > 0 /\ \A i \in 1..Len(v.s) : IsDigit(v.s[i])

IntOf(v) == IF v.kind = "int" THEN v.n ELSE DecimalValue(v.s)

\* ------------------------------------------------------------------ messages
\* An error detail is the sequence of its words.
MsgInvalidCredentials == <<"Invalid", "authentication", "credentials">>
MsgUserIdNotFound == <<"Invalid", "token:", "user_id", "not", "found">>
MsgUserIdNotInteger == <<"Invalid", "token:", "user_id", "must", "be", "an", "integer">>
MsgNotAuthenticated == <<"Not", "authenticated">>
MsgTaskNotFound == <<"Task", "not", "found">>
MsgTaskDeleted == <<"Task", "deleted", "successfully">>
MsgValidation == <<"validation", "error">>
MsgInternal == <<"Internal", "Server", "Error">>
MsgForbidden == <<"Forbidden">>
MsgNone == <<>>

Contains(msg, word) == \E i \in 1..Len(msg) : msg[i] = word

\* ------------------------------------------------------------------ responses
\* An HTTP response: status, detail message, the WWW-Authenticate header
\* (None when the response has none) and the task rows of the body.
Response(st, msg, hdr, rows) ==
  [status |-> st, detail |-> msg, www |-> hdr, body |-> rows]

HTTPException(st, msg, hdr) == Response(st, msg, hdr, <<>>)

\* --------------------------------------------------------------------- tokens
\* What jwt.decode sees in a bearer token: form "jwt" is a token signed with
\* JWT_SECRET, "badsig" a well-formed token with another signature,
\* "malformed" a string that is no JWT.  exp is the exp claim; sub, user_id
\* and id are the identifier claims (ClaimNone when absent or null).
\* jose accepts a sub claim only when it is a string, so sub is a string.
Chars_1 == <<"1">>
Chars_2 == <<"2">>
Chars_test_user_123 ==
  <<"t", "e", "s", "t", "-", "u", "s", "e", "r", "-", "1", "2", "3">>

Far == MaxTime + 1

Token(f, e, a, b, c) == [form |-> f, exp |-> e, sub |-> a, user_id |-> b, id |-> c]

\* Tokens signed with JWT_SECRET that have not expired.
FreshTokens ==
  { Token("jwt", Far, ClaimStr(Chars_1), ClaimNone, ClaimNone),
    Token("jwt", Far, ClaimStr(Chars_1), ClaimInt(2), ClaimInt(2)),
    Token("jwt", Far, ClaimStr(Chars_test_user_123), ClaimNone, ClaimNone),
    Token("jwt", Far, ClaimStr(<<>>), ClaimStr(Chars_2), ClaimNone),
    Token("jwt", Far, ClaimNone, ClaimInt(0), ClaimInt(1)),
    Token("jwt", Far, ClaimStr(<<>>), ClaimNone, ClaimNone),
    Token("jwt", Far, ClaimNone, ClaimInt(0), ClaimNone),
    Token("jwt", Far, ClaimNone, ClaimNone, ClaimNone) }

\* Tokens signed with JWT_SECRET whose exp is, or will be, in the past.
ExpiringTokens ==
  { Token("jwt", 0, ClaimStr(Chars_1), ClaimNone, ClaimNone),
    Token("jwt", 1, ClaimStr(Chars_1), ClaimNone, ClaimNone) }

\* One token for user 1 and one for user 2.
UserTokens ==
  { Token("jwt", Far, ClaimStr(Chars_1), ClaimNone, ClaimNone),
    Token("jwt", Far, ClaimNone, ClaimInt(2), ClaimNone) }

Tokens ==
  FreshTokens \cup ExpiringTokens
  \cup { Token("badsig", Far, ClaimStr(Chars_1), ClaimNone, ClaimNone),
         Token("malformed", 0, ClaimNone, ClaimNone, ClaimNone) }

\* The Authorization header: None when the request carries none.
Credentials == {None} \cup { Some(t) : t \in Tokens }

\* jwt.decode(token, JWT_SECRET, algorithms=[JWT_ALGORITHM]) raises JWTError
\* for a malformed token or a wrong signature, and ExpiredSignatureError (a
\* JWTError) when exp is before the current time.
JwtDecodeRaises(token, t) ==
  \/ token.form # "jwt"
  \/ token.exp < t

\* verify_token that does not check the signature: only a string that is no
\* JWT, or an expired token, raises.
verify_token_unverified(token, t) ==
  IF token.form = "malformed" \/ token.exp < t
  THEN [ok |-> FALSE,
        error |-> HTTPException(HTTP_401_UNAUTHORIZED, MsgInvalidCredentials, Some("Bearer"))]
  ELSE [ok |-> TRUE, error |-> HTTPException(0, MsgNone, None)]

\* app/auth/jwt.py verify_token: the payload, or the 401 raised.
verify_token(token, t) ==
  IF JwtDecodeRaises(token, t)
  THEN [ok |-> FALSE,
        error |-> HTTPException(HTTP_401_UNAUTHORIZED, MsgInvalidCredentials, Some("Bearer"))]
  ELSE [ok |-> TRUE, error |-> HTTPException(0, MsgNone, None)]

\* payload.get("sub") or payload.get("user_id") or payload.get("id")
ExtractUserId(token) == PyOr(PyOr(token.sub, token.user_id), token.id)

\* security = HTTPBearer(): what the framework answers when the request has
\* no Authorization header.  Releases of the framework differ: 403 without a
\* challenge, or 401 with WWW-Authenticate: Bearer.
HTTPBearerMissing ==
  { HTTPException(HTTP_403_FORBIDDEN, MsgNotAuthenticated, None),
    HTTPException(HTTP_401_UNAUTHORIZED, MsgNotAuthenticated, Some("Bearer")) }

\* get_current_user whose int() failure raises without headers=.
get_current_user_bare(token, t) ==
  LET v == verify_token(token, t)
      user_id == ExtractUserId(token)
  IN  IF ~v.ok THEN [ok |-> FALSE, id |-> 0, error |-> v.error]
      ELSE IF user_id.kind = "none"
      THEN [ok |-> FALSE, id |-> 0,
            error |-> HTTPException(HTTP_401_UNAUTHORIZED, MsgUserIdNotFound, Some("Bearer"))]
      ELSE IF ~IntConvertible(user_id)
      THEN [ok |-> FALSE, id |-> 0,
            error |-> HTTPException(HTTP_401_UNAUTHORIZED, MsgUserIdNotInteger, None)]
      ELSE [ok |-> TRUE, id |-> IntOf(user_id), error |-> HTTPException(0, MsgNone, None)]

\* app/auth/jwt.py get_current_user, for a request that carries a token:
\* User(id) or the 401 raised.
get_current_user(token, t) ==
  LET v == verify_token(token, t)
      user_id == ExtractUserId(token)
  IN  IF ~v.ok THEN [ok |-> FALSE, id |-> 0, error |-> v.error]
      ELSE IF user_id.kind = "none"
      THEN [ok |-> FALSE, id |-> 0,
            error |-> HTTPException(HTTP_401_UNAUTHORIZED, MsgUserIdNotFound, Some("Bearer"))]
      ELSE IF ~IntConvertible(user_id)
      THEN [ok |-> FALSE, id |-> 0,
            error |-> HTTPException(HTTP_401_UNAUTHORIZED, MsgUserIdNotInteger, Some("Bearer"))]
      ELSE [ok |-> TRUE, id |-> IntOf(user_id), error |-> HTTPException(0, MsgNone, None)]

\* ----------------------------------------------------------------------- text
\* A title or description as submitted: pre blanks, then a body of len
\* characters that neither starts nor ends with a blank (body names its
\* content, len = 0 exactly when it is empty), then post blanks.
Text(a, b, l, c) == [pre |-> a, body |-> b, len |-> l, post |-> c]
Length(v) == v.pre + v.len + v.post
\* str.strip()
Strip(v) == [v EXCEPT !.pre = 0, !.post = 0]

TextBlank == Text(2, "", 0, 0)
TextA == Text(0, "A", 1, 0)
TextB == Text(0, "B", 1, 0)
TextPaddedB == Text(1, "B", 1, 1)
TextD == Text(0, "D", 3, 0)
TextPaddedE == Text(1, "E", 2, 1)
\* Texts at the length limits of the schemas, bare and padded with blanks.
TextL500 == Text(0, "L", TITLE_MAX_LENGTH, 0)
TextPaddedL500 == Text(1, "L", TITLE_MAX_LENGTH, 0)
TextL501 == Text(0, "L", TITLE_MAX_LENGTH + 1, 0)
TextM5000 == Text(0, "M", DESCRIPTION_MAX_LENGTH, 0)
TextPaddedM5000 == Text(1, "M", DESCRIPTION_MAX_LENGTH, 1)
TextM5001 == Text(0, "M", DESCRIPTION_MAX_LENGTH + 1, 0)

\* ------------------------------------------------------------ request schemas
\* The JSON body of a request: title and description (None when the field is
\* missing or null) and a user_id field a client may add.
Body(t, d, u) == [title |-> t, description |-> d, user_id |-> u]
NoBody == Body(None, None, None)

\* TaskCreate / TaskUpdate validate_title, after Field(min_length=1,
\* max_length=500) has passed on the submitted value.
TitleFieldOk(v) == Length(v) >= 1 /\ Length(v) <= TITLE_MAX_LENGTH
validate_title_ok(v) ==
  /\ TitleFieldOk(v)
  /\ Length(Strip(v)) > 0
  /\ Length(Strip(v)) <= TITLE_MAX_LENGTH
\* A validator that returns the title as submitted.
validate_title_raw(v) == v
validate_title(v) == Strip(v)

\* TaskCreate / TaskUpdate validate_description, after Field(max_length=5000).
DescriptionFieldOk(v) == Length(v) <= DESCRIPTION_MAX_LENGTH
validate_description_ok(o) ==
  IsNone(o) \/ (DescriptionFieldOk(Get(o)) /\ Length(Strip(Get(o))) <= DESCRIPTION_MAX_LENGTH)
validate_description(o) ==
  IF IsNone(o) THEN None
  ELSE IF Length(Strip(Get(o))) > 0 THEN Some(Strip(Get(o))) ELSE None

\* TaskCreate(**body): title is required; fields the schema does not declare
\* (user_id) are dropped.
TaskCreateValid(b) ==
  /\ ~IsNone(b.title)
  /\ validate_title_ok(Get(b.title))
  /\ validate_description_ok(b.description)
TaskCreate(b) ==
  [title |-> Some(validate_title(Get(b.title))),
   description |-> validate_description(b.description)]

\* TaskUpdate(**body): both fields optional.
TaskUpdateValid(b) ==
  /\ IsNone(b.title) \/ validate_title_ok(Get(b.title))
  /\ validate_description_ok(b.description)
TaskUpdate(b) ==
  [title |-> IF IsNone(b.title) THEN None ELSE Some(validate_title(Get(b.title))),
   description |-> validate_description(b.description)]

ValidationError == Response(422, MsgValidation, None, <<>>)
\* The 422 of a body that fails its schema: the errors it lists carry the
\* input they are about.
RequestValidationError(b) == [ValidationError EXCEPT !.body = <<b>>]

\* The bodies clients send to POST /tasks and PUT /tasks/{task_id}.
CreateBodies ==
  { Body(Some(TextPaddedB), Some(TextBlank), Some(2)),
    Body(Some(TextBlank), None, None) }
UpdateBodies ==
  { Body(Some(TextB), None, None),
    Body(None, Some(TextD), Some(2)) }

\* Bodies around the limits of the schemas: titles and descriptions that are
\* blank, padded, at a limit and one character beyond it; for PUT, every
\* combination of a title and a description that is sent or left out.
LimitCreateBodies ==
  { Body(Some(TextL500), Some(TextBlank), None),
    Body(Some(TextPaddedL500), None, None),
    Body(Some(TextL501), None, None),
    Body(Some(TextBlank), None, None),
    Body(Some(TextPaddedB), Some(TextM5000), None),
    Body(Some(TextA), Some(TextPaddedM5000), None),
    Body(Some(TextA), Some(TextM5001), None) }
LimitUpdateBodies ==
  { Body(None, None, None),
    Body(Some(TextPaddedB), None, None),
    Body(None, Some(TextPaddedE), None),
    Body(Some(TextB), Some(TextPaddedE), None),
    Body(None, Some(TextBlank), None),
    Body(Some(TextPaddedL500), None, None),
    Body(None, Some(TextPaddedM5000), None) }

\* ---------------------------------------------------------------- the model
VARIABLES
  tasks,      \* the rows of table tasks
  nextId,     \* the next value of the id sequence of table tasks
  now,        \* the clock read by datetime.now(timezone.utc)
  inflight,   \* the requests whose handler is running
  nreq,       \* number of requests received so far
  last,       \* the response sent last, with its request (None at the start)
  clients     \* what the clients of this run send: their Authorization
              \* headers (creds) and their request bodies (create, update)

vars == <<tasks, nextId, now, inflight, nreq, last, clients>>

\* app/models/task.py Task
Task(i, u, t, d, c, ca, ua) ==
  [id |-> i, user_id |-> u, title |-> t, description |-> d, completed |-> c,
   created_at |-> ca, updated_at |-> ua]

Ops == {"create", "list", "toggle", "update", "delete"}

\* A request whose dependencies have been resolved: cred is its Authorization
\* header, uid is current_user.id, tid is task_id, data the validated schema,
\* extra the user_id field of its body, loaded the row its session holds; n
\* tells requests apart that are alike in all of this.  since is the last
\* clock reading made before the handler reached the statements that call
\* datetime.now() (0 while it has none ahead): its own readings are not
\* earlier than that one.
Request(k, o, c, u, i, d, x, p, l, s) ==
  [n |-> k, op |-> o, cred |-> c, uid |-> u, tid |-> i, data |-> d, extra |-> x,
   pc |-> p, loaded |-> l, since |-> s]

\* What is recorded of a request when its response is sent: uid is None when
\* no user was returned for it.
Sent(o, c, u, i, resp) ==
  [op |-> o, cred |-> c, uid |-> u, tid |-> i, resp |-> resp]

\* The table when the process starts: empty, or holding rows that earlier
\* create_task requests of users 1 and 2 left there.
InitialStores ==
  { {},
    { Task(1, 1, TextA, None, FALSE, 1, 1), Task(2, 2, TextB, Some(TextD), FALSE, 1, 1) } }

Init ==
  /\ tasks \in InitialStores
  /\ nextId = Cardinality(tasks) + 1
  /\ now = 1
  /\ inflight = {}
  /\ nreq = 0
  /\ last = None
  /\ clients = [creds |-> { Some(t) : t \in UserTokens },
                create |-> CreateBodies, update |-> UpdateBodies]

\* The readings a call of datetime.now() (or the clock jwt.decode reads) may
\* return when the reading before it was t: time never runs backwards here.
Later(t) == t..MaxTime

\* The clock after a handler has read t from it: the latest reading so far.
\* A handler reads the clock before it commits, so another handler may read
\* it later and yet commit earlier.
Latest(t) == IF t > now THEN t ELSE now

\* ------------------------------------------------------------ request inputs
Bodies(op) ==
  CASE op = "create" -> clients.create
    [] op = "update" -> clients.update
    [] OTHER -> {NoBody}
\* task_id of the path: an id the sequence has handed out, or the next one.
TaskIds(op) == IF op \in {"create", "list"} THEN {0} ELSE 1..nextId

BodyValid(op, b) ==
  CASE op = "create" -> TaskCreateValid(b)
    [] op = "update" -> TaskUpdateValid(b)
    [] OTHER -> TRUE
Schema(op, b) ==
  CASE op = "create" -> TaskCreate(b)
    [] op = "update" -> TaskUpdate(b)
    [] OTHER -> [title |-> None, description |-> None]

\* ------------------------------------------------------------------- routing
\* A request arrives on a task route.  Depends(get_current_user) is resolved
\* first (HTTPBearer, then get_current_user); then the body is validated;
\* then the handler starts.  A failure answers the request at once.
Reject(op, cred, resp) ==
  /\ last' = Some(Sent(op, cred, None, 0, resp))
  /\ UNCHANGED <<tasks, nextId, inflight>>

\* The request as its handler starts.
Started(k, op, cred, uid, tid, body) ==
  Request(k, op, cred, uid, tid, Schema(op, body), body.user_id,
          IF op = "create" THEN "commit" ELSE "select", None,
          IF op = "create" THEN now' ELSE 0)

Admit(op, cred, uid, tid, body) ==
  IF ~BodyValid(op, body)
  THEN /\ last' = Some(Sent(op, cred, Some(uid), tid, RequestValidationError(body)))
       /\ UNCHANGED <<tasks, nextId, inflight>>
  ELSE /\ LET k == CHOOSE k \in 0..MaxInFlight :
                     /\ Started(k, op, cred, uid, tid, body) \notin inflight
                     /\ \A m \in 0..(k - 1) : Started(m, op, cred, uid, tid, body) \in inflight
          IN  inflight' = inflight \cup { Started(k, op, cred, uid, tid, body) }
       /\ UNCHANGED <<tasks, nextId, last>>

Receive(op, cred) ==
  /\ nreq < MaxReqs
  /\ Cardinality(inflight) < MaxInFlight
  /\ nreq' = nreq + 1
  /\ UNCHANGED clients
  /\ IF IsNone(cred)
     THEN /\ \E resp \in HTTPBearerMissing : Reject(op, cred, resp)
          /\ UNCHANGED now
     ELSE \E t \in Later(now) :
            /\ now' = t
            /\ LET user == get_current_user(Get(cred), t)
               IN  IF ~user.ok THEN Reject(op, cred, user.error)
                   ELSE \E tid \in TaskIds(op), body \in Bodies(op) :
                          Admit(op, cred, user.id, tid, body)

\* The response of handler r is sent and its session closed.
Finish(r, resp) ==
  /\ inflight' = inflight \ {r}
  /\ last' = Some(Sent(r.op, r.cred, Some(r.uid), r.tid, resp))
  /\ UNCHANGED clients

\* ------------------------------------------------------------------ handlers
\* create_task that takes the owner from the body when the body names one.
NewTaskOwnedAsAsked(r, i, t1, t2) ==
  Task(i, IF IsNone(r.extra) THEN r.uid ELSE Get(r.extra),
       Get(r.data.title), r.data.description, FALSE, t1, t2)

\* create_task: the row built from current_user and task_data.
NewTask(r, i, t1, t2) ==
  Task(i, r.uid, Get(r.data.title), r.data.description, FALSE, t1, t2)

\* create_task.  The two datetime.now() calls are t1 <= t2, both made after
\* the request was received and before the commit.
create_task(r) ==
  /\ r.op = "create" /\ r.pc = "commit"
  /\ \E t1 \in Later(r.since) : \E t2 \in Later(t1) :
       LET row == NewTask(r, nextId, t1, t2)
       IN  /\ tasks' = tasks \cup {row}
           /\ nextId' = nextId + 1
           /\ now' = Latest(t2)
           /\ Finish(r, Response(HTTP_201_CREATED, MsgNone, None, <<row>>))
  /\ UNCHANGED nreq

\* list_tasks without the where clause.
AllRows(store, uid) == store

\* select(Task).where(Task.user_id == uid)
OwnedBy(store, uid) == { t \in store : t.user_id = uid }

\* The rows oldest first.
OrderedByCreatedAsc(rows) ==
  { s \in [1..Cardinality(rows) -> rows] :
      /\ \A i, j \in 1..Cardinality(rows) : i # j => s[i] # s[j]
      /\ \A i, j \in 1..Cardinality(rows) : i < j => s[i].created_at <= s[j].created_at }

\* .order_by(Task.created_at.desc()): the orders the database may return.
OrderedByCreatedDesc(rows) ==
  { s \in [1..Cardinality(rows) -> rows] :
      /\ \A i, j \in 1..Cardinality(rows) : i # j => s[i] # s[j]
      /\ \A i, j \in 1..Cardinality(rows) : i < j => s[i].created_at >= s[j].created_at }

\* list_tasks
list_tasks(r) ==
  /\ r.op = "list" /\ r.pc = "select"
  /\ \E rows \in OrderedByCreatedDesc(OwnedBy(tasks, r.uid)) :
       Finish(r, Response(HTTP_200_OK, MsgNone, None, rows))
  /\ UNCHANGED <<tasks, nextId, now, nreq>>

\* WHERE id = i
RowById(store, i) == { t \in store : t.id = i }

\* The lookup by id alone.
FindTaskById(store, tid, uid) == { t \in store : t.id = tid }

\* select(Task).where(Task.id == task_id, Task.user_id == current_user.id)
FindTask(store, tid, uid) == { t \in store : t.id = tid /\ t.user_id = uid }

NotFound == HTTPException(HTTP_404_NOT_FOUND, MsgTaskNotFound, None)

\* A lookup that tells a row of another user (403) from no row (404).
select_task_forbidden(r) ==
  /\ r.op \in {"toggle", "update", "delete"} /\ r.pc = "select"
  /\ LET found == FindTask(tasks, r.tid, r.uid)
     IN  IF found = {}
         THEN IF RowById(tasks, r.tid) = {}
              THEN Finish(r, NotFound)
              ELSE Finish(r, HTTPException(HTTP_403_FORBIDDEN, MsgForbidden, None))
         ELSE /\ inflight' = (inflight \ {r}) \cup
                   { [r EXCEPT !.pc = "commit", !.loaded = Some(CHOOSE t \in found : TRUE),
                               !.since = IF r.op = "delete" THEN 0 ELSE now] }
              /\ UNCHANGED <<last, clients>>
  /\ UNCHANGED <<tasks, nextId, now, nreq>>

\* The first half of toggle_task_completion, update_task and delete_task:
\* the ownership-scoped SELECT, and the 404 when it finds no row.
select_task(r) ==
  /\ r.op \in {"toggle", "update", "delete"} /\ r.pc = "select"
  /\ LET found == FindTask(tasks, r.tid, r.uid)
     IN  IF found = {}
         THEN Finish(r, NotFound)
         ELSE /\ inflight' = (inflight \ {r}) \cup
                   { [r EXCEPT !.pc = "commit", !.loaded = Some(CHOOSE t \in found : TRUE),
                               !.since = IF r.op = "delete" THEN 0 ELSE now] }
              /\ UNCHANGED <<last, clients>>
  /\ UNCHANGED <<tasks, nextId, now, nreq>>

\* A mark_updated that restarts both timestamps.
mark_updated_restamped(row, t) == [row EXCEPT !.updated_at = t, !.created_at = t]

\* task.mark_updated()
mark_updated(row, t) == [row EXCEPT !.updated_at = t]

\* session.add(task); session.commit(); session.refresh(task) for the row the
\* session loaded and the handler changed to `changed`: the UPDATE sets the
\* columns whose value differs from the loaded one, WHERE id = the loaded id.
Flush(cur, loaded, changed) ==
  [cur EXCEPT
     !.user_id = IF changed.user_id # loaded.user_id THEN changed.user_id ELSE @,
     !.created_at = IF changed.created_at # loaded.created_at THEN changed.created_at ELSE @,
     !.title = IF changed.title # loaded.title THEN changed.title ELSE @,
     !.description = IF changed.description # loaded.description THEN changed.description ELSE @,
     !.completed = IF changed.completed # loaded.completed THEN changed.completed ELSE @,
     !.updated_at = IF changed.updated_at # loaded.updated_at THEN changed.updated_at ELSE @]

\* The row is gone when the session flushes or refreshes: the ORM raises and
\* the request ends in an unhandled 500.
ServerError == Response(500, MsgInternal, None, <<>>)

\* A commit that writes the row of the session back whole, stored or not.
CommitMerged(r, changed) ==
  /\ tasks' = (tasks \ RowById(tasks, r.tid)) \cup {changed}
  /\ Finish(r, Response(HTTP_200_OK, MsgNone, None, <<changed>>))

Commit(r, changed) ==
  LET cur == RowById(tasks, r.tid)
  IN  IF cur = {}
      THEN /\ Finish(r, ServerError)
           /\ UNCHANGED tasks
      ELSE LET old == CHOOSE t \in cur : TRUE
               new == Flush(old, Get(r.loaded), changed)
           IN  /\ tasks' = (tasks \ {old}) \cup {new}
               /\ Finish(r, Response(HTTP_200_OK, MsgNone, None, <<new>>))

\* A handler that marks the task completed, whatever it was.
ToggledOn(row, t) == mark_updated([row EXCEPT !.completed = TRUE], t)

\* toggle_task_completion, from `task.completed = not task.completed` on.
Toggled(row, t) == mark_updated([row EXCEPT !.completed = ~row.completed], t)

toggle_task_completion(r) ==
  /\ r.op = "toggle" /\ r.pc = "commit"
  /\ \E t \in Later(r.since) :
       /\ now' = Latest(t)
       /\ Commit(r, Toggled(Get(r.loaded), t))
  /\ UNCHANGED <<nextId, nreq>>

\* An update_task that stores the description of the body as it is, sent or not.
UpdatedWhole(row, data, t) ==
  mark_updated(
    [row EXCEPT
       !.title = IF ~IsNone(data.title) THEN Get(data.title) ELSE @,
       !.description = data.description], t)

\* update_task, from `if task_data.title is not None` on.
Updated(row, data, t) ==
  mark_updated(
    [row EXCEPT
       !.title = IF ~IsNone(data.title) THEN Get(data.title) ELSE @,
       !.description = IF ~IsNone(data.description) THEN data.description ELSE @], t)

update_task(r) ==
  /\ r.op = "update" /\ r.pc = "commit"
  /\ \E t \in Later(r.since) :
       /\ now' = Latest(t)
       /\ Commit(r, Updated(Get(r.loaded), r.data, t))
  /\ UNCHANGED <<nextId, nreq>>

\* delete_task, from session.delete(task) on: DELETE FROM tasks WHERE id =
\* the loaded id.  A DELETE that matches no row is a warning, not an error.
Deleted == Response(HTTP_200_OK, MsgTaskDeleted, None, <<>>)

delete_task(r) ==
  /\ r.op = "delete" /\ r.pc = "commit"
  /\ tasks' = tasks \ RowById(tasks, r.tid)
  /\ Finish(r, Deleted)
  /\ UNCHANGED <<nextId, now, nreq>>

\* ------------------------------------------------------------- specification
Next ==
  \/ \E op \in Ops, cred \in clients.creds : Receive(op, cred)
  \/ \E r \in inflight : create_task(r)
  \/ \E r \in inflight : list_tasks(r)
  \/ \E r \in inflight : select_task(r)
  \/ \E r \in inflight : toggle_task_completion(r)
  \/ \E r \in inflight : update_task(r)
  \/ \E r \in inflight : delete_task(r)

Spec == Init /\ [][Next]_vars

\* The token verifier under every credential, with one body per route.
InitAuth ==
  /\ tasks = { Task(1, 1, TextA, None, FALSE, 1, 1) }
  /\ nextId = 2
  /\ now = 1
  /\ inflight = {}
  /\ nreq = 0
  /\ last = None
  /\ clients = [creds |-> Credentials,
                create |-> { Body(Some(TextA), None, Some(2)) },
                update |-> { Body(Some(TextB), None, None) }]

SpecAuth == InitAuth /\ [][Next]_vars

\* One user, whose task has a description, sending the bodies around the
\* limits of the schemas.
InitLimits ==
  /\ tasks = { Task(1, 1, TextA, Some(TextD), FALSE, 1, 1) }
  /\ nextId = 2
  /\ now = 1
  /\ inflight = {}
  /\ nreq = 0
  /\ last = None
  /\ clients = [creds |-> { Some(Token("jwt", Far, ClaimStr(Chars_1), ClaimNone, ClaimNone)) },
                create |-> LimitCreateBodies, update |-> LimitUpdateBodies]

SpecLimits == InitLimits /\ [][Next]_vars

\* One user, whose task was created and last updated before the first clock
\* reading of the run.
InitEarlier ==
  /\ tasks = { Task(1, 1, TextA, None, FALSE, 0, 0) }
  /\ nextId = 2
  /\ now = 1
  /\ inflight = {}
  /\ nreq = 0
  /\ last = None
  /\ clients = [creds |-> { Some(Token("jwt", Far, ClaimStr(Chars_1), ClaimNone, ClaimNone)) },
                create |-> { Body(Some(TextA), None, None) },
                update |-> { Body(Some(TextB), None, None) }]

SpecEarlier == InitEarlier /\ [][Next]_vars

\* ===================================================================== claims
Lookups == {"toggle", "update", "delete"}

\* Request r is about to run its SELECT and runs it in this step.
Selects(r) == r.pc = "select" /\ r.op \in Lookups /\ r \notin inflight'

\* A request is received in this step and answered at once.
AnsweredAtOnce == nreq' = nreq + 1 /\ inflight' = inflight

\* The requests whose handler starts in this step.
Admitted == IF nreq' = nreq + 1 THEN inflight' \ inflight ELSE {}

\* C1: every task that list_tasks returns has the user_id of the caller, so a
\* task created under another user's identity is never in the result.
C1_ListOnlyOwn ==
  (~IsNone(last) /\ Get(last).op = "list" /\ Get(last).resp.status = HTTP_200_OK)
    => \A i \in 1..Len(Get(last).resp.body) :
         Get(last).resp.body[i].user_id = Get(Get(last).uid)

\* User 2 lists and gets its own task while user 1 has a task too.
C1_Witness ==
  /\ ~IsNone(last) /\ Get(last).op = "list" /\ Get(last).uid = Some(2)
  /\ Len(Get(last).resp.body) > 0
  /\ \E t \in tasks : t.user_id = 1

\* C2: when a toggle, update or delete looks up a task that exists and
\* belongs to another user, the request is answered 404 "Task not found" in
\* that step and no row of the table changes.
C2_ForeignTaskUntouched ==
  [][\A r \in inflight :
       (Selects(r) /\ \E t \in tasks : t.id = r.tid /\ t.user_id # r.uid)
         => /\ last' = Some(Sent(r.op, r.cred, Some(r.uid), r.tid, NotFound))
            /\ tasks' = tasks]_vars

\* User 2's update of user 1's task was answered 404; the task is as created.
C2_Witness ==
  /\ ~IsNone(last) /\ Get(last).op = "update" /\ Get(last).uid = Some(2)
  /\ Get(last).resp.status = HTTP_404_NOT_FOUND
  /\ Task(1, 1, TextA, None, FALSE, 1, 1) \in tasks
  /\ Get(last).tid = 1

\* C3: a toggle, update or delete whose caller owns no task with the given
\* id gets one and the same response, status 404 with "Task not found",
\* whether another user's task has that id or no task has it.
C3_SameNotFound ==
  [][\A r \in inflight :
       (Selects(r) /\ ~\E t \in tasks : t.id = r.tid /\ t.user_id = r.uid)
         => /\ ~IsNone(last')
            /\ Get(last').resp = Response(HTTP_404_NOT_FOUND, MsgTaskNotFound, None, <<>>)]_vars

\* A delete of another user's task was answered with the 404 of a missing id.
C3_Witness ==
  /\ ~IsNone(last) /\ Get(last).op = "delete"
  /\ Get(last).resp = Response(HTTP_404_NOT_FOUND, MsgTaskNotFound, None, <<>>)
  /\ \E t \in tasks : t.id = Get(last).tid /\ Some(t.user_id) # Get(last).uid

\* C4: a row keeps its user_id in every step, no two rows share an id, and a
\* new row has the user_id that get_current_user returned for the create
\* request that made it, whatever user_id the body carries.
C4_OneOwnerForGood ==
  [][/\ \A t \in tasks, u \in tasks' : t.id = u.id => u.user_id = t.user_id
     /\ \A t, u \in tasks' : t.id = u.id => t = u
     /\ \A u \in tasks' :
          (~\E t \in tasks : t.id = u.id)
            => \E r \in inflight :
                 /\ r.op = "create" /\ r \notin inflight'
                 /\ ~IsNone(r.cred)
                 /\ \A t \in Later(1) :
                      get_current_user(Get(r.cred), t).ok
                        => get_current_user(Get(r.cred), t).id = u.user_id]_vars

\* User 1 created a task with a body that names user 2 as user_id.
C4_Witness ==
  /\ ~IsNone(last) /\ Get(last).op = "create" /\ Get(last).uid = Some(1)
  /\ Get(last).resp.status = HTTP_201_CREATED
  /\ Get(last).resp.body[1].user_id = 1
  /\ Get(last).resp.body[1] \in tasks
  /\ \A b \in clients.create : TaskCreateValid(b) => b.user_id = Some(2)

\* A token that fails verification at time t: not a JWT, wrong signature,
\* expired, or without any identifier claim.
Unverifiable(token, t) ==
  \/ token.form # "jwt"
  \/ token.exp < t
  \/ token.sub.kind = "none" /\ token.user_id.kind = "none" /\ token.id.kind = "none"

\* C5: a request whose token fails verification is answered 401 in the step
\* that receives it, with the table as it was, and no handler is started for
\* it: every handler that starts has a token that verifies.
C5_RejectedBeforeStorage ==
  [][/\ \A r \in Admitted : ~IsNone(r.cred) /\ ~Unverifiable(Get(r.cred), now')
     /\ (/\ AnsweredAtOnce
         /\ ~IsNone(Get(last').cred)
         /\ Unverifiable(Get(Get(last').cred), now'))
          => /\ Get(last').resp.status = HTTP_401_UNAUTHORIZED
             /\ IsNone(Get(last').uid)
             /\ tasks' = tasks /\ nextId' = nextId]_vars

\* A create with a wrongly signed token was answered 401; the table is as it was.
C5_Witness ==
  /\ ~IsNone(last) /\ Get(last).op = "create"
  /\ ~IsNone(Get(last).cred) /\ Get(Get(last).cred).form = "badsig"
  /\ Get(last).resp.status = HTTP_401_UNAUTHORIZED
  /\ tasks = { Task(1, 1, TextA, None, FALSE, 1, 1) }

\* C6: a request with a correctly signed token whose exp is in the past is
\* answered 401 with a message that contains "expired".
C6_ExpiredSaysExpired ==
  [][(/\ AnsweredAtOnce
      /\ ~IsNone(Get(last').cred)
      /\ Get(Get(last').cred).form = "jwt"
      /\ Get(Get(last').cred).exp < now')
       => /\ Get(last').resp.status = HTTP_401_UNAUTHORIZED
          /\ \/ Contains(Get(last').resp.detail, "expired")
             \/ Contains(Get(last').resp.detail, "Expired")]_vars

\* C7: a correctly signed, unexpired token whose sub claim is a non-empty
\* string is not answered 401, digits or not.
C7_OpaqueIdentifierAccepted ==
  (/\ ~IsNone(last)
   /\ ~IsNone(Get(last).cred)
   /\ Get(Get(last).cred).form = "jwt"
   /\ Get(Get(last).cred).exp = Far
   /\ Get(Get(last).cred).sub.kind = "str"
   /\ Len(Get(Get(last).cred).sub.s) > 0)
    => Get(last).resp.status # HTTP_401_UNAUTHORIZED

\* The first of sub, user_id, id that is present and not null.
FirstNonNull(token) ==
  IF token.sub.kind # "none" THEN token.sub
  ELSE IF token.user_id.kind # "none" THEN token.user_id
  ELSE token.id

\* C8: for a correctly signed, unexpired token the identity is the first of
\* sub, user_id, id that is not null, and the request fails for a missing
\* identifier only when all three are null.
C8_FirstNonNullWins ==
  (/\ ~IsNone(last)
   /\ ~IsNone(Get(last).cred)
   /\ Get(Get(last).cred).form = "jwt"
   /\ Get(Get(last).cred).exp = Far)
    => /\ Get(last).resp.detail = MsgUserIdNotFound
            => FirstNonNull(Get(Get(last).cred)).kind = "none"
       /\ ~IsNone(Get(last).uid)
            => /\ IntConvertible(FirstNonNull(Get(Get(last).cred)))
               /\ IntOf(FirstNonNull(Get(Get(last).cred))) = Get(Get(last).uid)

\* C9: no 401 message names a claim, and every 401 for a token that is not
\* expired carries the one generic message.
C9_OneGenericMessage ==
  (/\ ~IsNone(last)
   /\ ~IsNone(Get(last).cred)
   /\ Get(last).resp.status = HTTP_401_UNAUTHORIZED)
    => /\ ~Contains(Get(last).resp.detail, "sub")
       /\ ~Contains(Get(last).resp.detail, "user_id")
       /\ ~Contains(Get(last).resp.detail, "id")
       /\ (Get(Get(last).cred).form # "jwt" \/ Get(Get(last).cred).exp = Far)
            => Get(last).resp.detail = MsgInvalidCredentials

\* C10: every 401 response carries WWW-Authenticate: Bearer.
C10_ChallengeOn401 ==
  (~IsNone(last) /\ Get(last).resp.status = HTTP_401_UNAUTHORIZED)
    => Get(last).resp.www = Some("Bearer")

\* A 401 for an identifier that int() rejects, with the challenge header.
C10_Witness ==
  /\ ~IsNone(last)
  /\ Get(last).resp.status = HTTP_401_UNAUTHORIZED
  /\ Get(last).resp.detail = MsgUserIdNotInteger
  /\ Get(last).resp.www = Some("Bearer")

\* The bodies of this run that carry a title.
Titled == { b \in clients.create \cup clients.update : ~IsNone(b.title) }

\* A description that is missing or has nothing but blanks.
Blank(o) == IsNone(o) \/ Get(o).len = 0

\* C11: before and after every step, every stored title is trimmed, not
\* empty and at most 500 characters long, and every stored description is
\* absent or trimmed, not empty and at most 5000 characters long; a title
\* that a step stores is the trimmed form of a submitted title, and a row
\* that a create inserts has the trimmed title and description of one
\* submitted body, its description absent when the submitted one is blank.
C11_StoredTextValid ==
  [][/\ \A u \in tasks \cup tasks' :
          /\ u.title.pre = 0 /\ u.title.post = 0
          /\ u.title.len >= 1 /\ u.title.len <= TITLE_MAX_LENGTH
          /\ \/ IsNone(u.description)
             \/ /\ Get(u.description).pre = 0 /\ Get(u.description).post = 0
                /\ Get(u.description).len >= 1
                /\ Get(u.description).len <= DESCRIPTION_MAX_LENGTH
     /\ \A u \in tasks' :
          (~\E t \in tasks : t.id = u.id /\ t.title = u.title)
            => \E b \in Titled :
                 /\ u.title.body = Get(b.title).body
                 /\ u.title.len = Get(b.title).len
     /\ \A u \in tasks' :
          (~\E t \in tasks : t.id = u.id)
            => \E b \in clients.create :
                 /\ ~IsNone(b.title)
                 /\ u.title.body = Get(b.title).body
                 /\ IF Blank(b.description) THEN IsNone(u.description)
                    ELSE /\ ~IsNone(u.description)
                         /\ Get(u.description).body = Get(b.description).body
                         /\ Get(u.description).len = Get(b.description).len]_vars

\* A padded title was stored trimmed beside a description at its limit, and
\* a title at its limit was stored with its blank description absent.
C11_Witness ==
  \E u, v \in tasks :
    /\ u.id > 1 /\ u.title = TextB /\ u.description = Some(TextM5000)
    /\ v.id > 1 /\ v.title = TextL500 /\ IsNone(v.description)

\* Handler r commits in this step and its request is answered 200.
Succeeds(r, op) ==
  /\ r.op = op /\ r.pc = "commit" /\ r \notin inflight'
  /\ Get(last').resp.status = HTTP_200_OK

\* C12: a successful update leaves every other row as it was and, of its own
\* row, changes nothing but title, description and updated_at: id, user_id,
\* completed and created_at are after the step what they were before it, the
\* title differs only when the request carries a title and the description
\* only when it carries a description.
C12_UpdateFrame ==
  [][\A r \in inflight :
       Succeeds(r, "update")
         => /\ \A t \in tasks : t.id # r.tid => t \in tasks'
            /\ \A u \in tasks' : u.id # r.tid => u \in tasks
            /\ \A t \in tasks, u \in tasks' :
                 (t.id = r.tid /\ u.id = r.tid)
                   => /\ u.user_id = t.user_id
                      /\ u.completed = t.completed
                      /\ u.created_at = t.created_at
                      /\ u.title # t.title => ~IsNone(r.data.title)
                      /\ u.description # t.description => ~IsNone(r.data.description)
            /\ Cardinality(RowById(tasks', r.tid)) = 1]_vars

\* An update that carried a title alone was applied to a completed task: the
\* title is the new one, the description and the completed flag are kept.
C12_Witness ==
  /\ ~IsNone(last) /\ Get(last).op = "update"
  /\ Get(last).resp.status = HTTP_200_OK
  /\ Get(last).resp.body[1] \in tasks
  /\ Get(last).resp.body[1].title = TextB
  /\ Get(last).resp.body[1].description = Some(TextD)
  /\ Get(last).resp.body[1].completed

\* C13: before and after every step every stored task has updated_at >=
\* created_at, and a task that is stored before and after a step has the
\* same created_at.
C13_CreatedOnceUpdatedLater ==
  [][/\ \A t \in tasks \cup tasks' : t.updated_at >= t.created_at
     /\ \A t \in tasks, u \in tasks' : t.id = u.id => u.created_at = t.created_at]_vars

\* A task created at the first clock reading was toggled or updated at a
\* later one, and another task was created at that later reading.
C13_Witness ==
  /\ \E t \in tasks : t.created_at = 1 /\ t.updated_at > 1
  /\ \E t \in tasks : t.created_at > 1

\* The stored row with id i, when there is one.
Stored(store, i) == CHOOSE t \in RowById(store, i) : TRUE

\* C14: a successful toggle whose row nobody changed since the handler
\* loaded it stores the negation of completed and leaves id, user_id, title,
\* description and created_at as they were; and the toggle that runs next on
\* the row it stored, at any later clock reading, stores the value completed
\* had before the first of the two.
C14_ToggleTwiceRestores ==
  [][\A r \in inflight :
       (/\ Succeeds(r, "toggle")
        /\ r.loaded = Some(Stored(tasks, r.tid)))
         => LET old == Stored(tasks, r.tid)
                new == Stored(tasks', r.tid)
            IN  /\ new.completed = ~old.completed
                /\ new.id = old.id /\ new.user_id = old.user_id
                /\ new.title = old.title /\ new.description = old.description
                /\ new.created_at = old.created_at
                /\ Get(last').resp.body = <<new>>
                /\ \A t \in Later(now') :
                     Flush(new, new, Toggled(new, t)).completed = old.completed]_vars

\* Two toggles of task 1, one after the other: the second one is answered
\* with the task not completed, as it was at the start.
C14_Witness ==
  /\ nreq = 2 /\ inflight = {}
  /\ ~IsNone(last) /\ Get(last).op = "toggle" /\ Get(last).tid = 1
  /\ Get(last).resp.status = HTTP_200_OK
  /\ ~Get(last).resp.body[1].completed
  /\ Get(last).resp.body[1].updated_at > 1
  /\ Get(last).resp.body[1] \in tasks

\* The ids the sequence has handed out whose row is not stored (any more).
Gone(store) == { i \in 1..(nextId - 1) : RowById(store, i) = {} }

\* C15: a delete that is answered with success leaves no row with its id;
\* an id whose row is gone stays without a row in every step, whichever
\* handler commits; a toggle, update or delete that looks such an id up is
\* answered 404 "Task not found"; and every row a list returns is stored.
C15_DeletedForGood ==
  [][/\ \A r \in inflight : Succeeds(r, "delete") => r.tid \in Gone(tasks')
     /\ Gone(tasks) \subseteq Gone(tasks')
     /\ \A r \in inflight :
          (Selects(r) /\ r.tid \in Gone(tasks))
            => /\ last' = Some(Sent(r.op, r.cred, Some(r.uid), r.tid, NotFound))
               /\ tasks' = tasks
     /\ \A r \in inflight :
          (r.op = "list" /\ r \notin inflight')
            => \A k \in 1..Len(Get(last').resp.body) :
                 Get(last').resp.body[k].id \notin Gone(tasks)]_vars

\* Task 1 was deleted while a toggle or update of it had loaded it: that
\* request has ended in an error and the task is still gone.
C15_Witness ==
  /\ 1 \in Gone(tasks)
  /\ ~IsNone(last) /\ Get(last).op \in {"toggle", "update"} /\ Get(last).tid = 1
  /\ Get(last).resp = ServerError

\* C16: of the deletes of a task that commit, the one that finds the row
\* stored is answered with the success message and one that finds it gone,
\* deleted by another request since it was looked up, is answered 404 "Task
\* not found".
C16_SecondDeleteNotFound ==
  [][\A r \in inflight :
       (r.op = "delete" /\ r.pc = "commit" /\ r \notin inflight')
         => Get(last').resp = IF RowById(tasks, r.tid) # {} THEN Deleted ELSE NotFound]_vars

\* C17: a list request is answered 200 with a list that holds each stored
\* task of the caller once and no other row, every element's created_at at
\* least that of the element after it; the list is empty, and the status
\* still 200, when the caller has no task.
C17_ListAllOwnNewestFirst ==
  [][\A r \in inflight :
       (r.op = "list" /\ r \notin inflight')
         => LET resp == Get(last').resp
                own == { t \in tasks : t.user_id = r.uid }
            IN  /\ resp.status = HTTP_200_OK
                /\ Len(resp.body) = Cardinality(own)
                /\ { resp.body[k] : k \in 1..Len(resp.body) } = own
                /\ \A k \in 1..(Len(resp.body) - 1) :
                     resp.body[k].created_at >= resp.body[k + 1].created_at]_vars

\* User 1 has an older and a newer task, user 2 has one: user 1's list holds
\* its two tasks, the newer one first.
C17_Witness ==
  /\ ~IsNone(last) /\ Get(last).op = "list" /\ Get(last).uid = Some(1)
  /\ Get(last).resp.status = HTTP_200_OK
  /\ Len(Get(last).resp.body) = 2
  /\ Get(last).resp.body[1].created_at > Get(last).resp.body[2].created_at
  /\ \E t \in tasks : t.user_id = 2

\* C18: every toggle that is answered with success flips the stored value of
\* completed, also when another toggle of the same task committed since its
\* handler loaded the row, so that two overlapping toggles leave completed
\* as it was before them.
C18_NoFlipLost ==
  [][\A r \in inflight :
       Succeeds(r, "toggle")
         => Stored(tasks', r.tid).completed = ~Stored(tasks, r.tid).completed]_vars

\* The limits applied to the trimmed value: a title of 1 to 500 characters
\* after trimming, a description of at most 5000 after trimming.
TrimmedTitleOk(v) == v.len >= 1 /\ v.len <= TITLE_MAX_LENGTH
TrimmedDescriptionOk(o) == IsNone(o) \/ Get(o).len <= DESCRIPTION_MAX_LENGTH

\* The limits as applied to the trimmed values of body b of a request op.
TrimmedOk(op, b) ==
  /\ IF IsNone(b.title) THEN op = "update" ELSE TrimmedTitleOk(Get(b.title))
  /\ TrimmedDescriptionOk(b.description)

\* C19: a create or update is answered with a validation failure only when
\* a trimmed value of its body breaks a limit (the trimmed title is empty or
\* longer than 500, the trimmed description longer than 5000), blanks around
\* the values not counted; and a handler starts only with values that keep
\* the limits.
C19_LimitsOnTrimmed ==
  [][/\ (AnsweredAtOnce /\ Get(last').resp.status = 422)
          => ~TrimmedOk(Get(last').op, Get(last').resp.body[1])
     /\ \A r \in Admitted :
          r.op \in {"create", "update"} => TrimmedOk(r.op, r.data)]_vars

\* The update bodies request r may have been sent with: those its validated
\* data and its user_id field come from.
SentWith(r) ==
  { b \in clients.update :
      /\ BodyValid("update", b)
      /\ Schema("update", b) = r.data
      /\ b.user_id = r.extra }

\* C20: when a successful update was sent with a description that is empty
\* or all blanks, the stored task has no description after it, whatever
\* description it had before.
C20_BlankDescriptionCleared ==
  [][\A r \in inflight :
       Succeeds(r, "update")
         => \A b \in SentWith(r) :
              (~IsNone(b.description) /\ Get(b.description).len = 0)
                => IsNone(Stored(tasks', r.tid).description)]_vars

\* C21: a create that is answered 201 returns the row it stored, which has
\* completed = false, created_at equal to updated_at, the user_id that
\* get_current_user returned for the request, and an id that no row stored
\* before the step has.
C21_CreatedAsOneInstant ==
  [][\A r \in inflight :
       (r.op = "create" /\ r \notin inflight')
         => LET resp == Get(last').resp
            IN  /\ resp.status = HTTP_201_CREATED
                /\ Len(resp.body) = 1
                /\ resp.body[1] \in tasks'
                /\ ~resp.body[1].completed
                /\ resp.body[1].user_id = r.uid
                /\ RowById(tasks, resp.body[1].id) = {}
                /\ resp.body[1].created_at = resp.body[1].updated_at]_vars

\* C22: every toggle or update that is answered with success leaves the
\* stored updated_at of its task no earlier than it was before the step: a
\* mutation never moves updated_at backwards.  (The claim asks more of a
\* toggle, a strictly later updated_at.)
C22_UpdatedAtNeverBack ==
  [][\A r \in inflight :
       (Succeeds(r, "toggle") \/ Succeeds(r, "update"))
         => Stored(tasks', r.tid).updated_at >= Stored(tasks, r.tid).updated_at]_vars

====
